---- MODULE Spec2Model ----
(***************************************************************************)
(* A model of the three command-line scripts downloader.py, debugger.py    *)
(* and anyvideodownload.py.  One run of one script is one behaviour: Init  *)
(* chooses the script and its sys.argv, the actions are the steps of the   *)
(* script's functions, and every call of the extraction library (describe  *)
(* = extract_info(download=False), fetch = download) is recorded in the    *)
(* log `calls` together with its nondeterministic outcome.                 *)
(*                                                                         *)
(* Strings the code inspects (argv tokens, URLs, answers typed at a        *)
(* prompt, the playlist item expression) are sequences of one-character    *)
(* strings, so that `in`, startswith, lower, int() and f-string formatting *)
(* are computed and not assumed.  Format selectors, which the scripts      *)
(* hand on unread, are plain strings.                                      *)
(*                                                                         *)
(* Path.mkdir is taken to succeed; the failures of a run are the           *)
(* exceptions raised by describe and fetch.                                *)
(*                                                                         *)
(* Spec runs every script over every command line of its kind.             *)
(* SpecFormats runs debugger.py <URL> --check-formats over every short      *)
(* format list the library may return and over long ones of a regular      *)
(* shape, for the properties of the format inspection itself.              *)
(***************************************************************************)
EXTENDS Integers, Sequences, FiniteSets, TLC

(* ------------------------------ bounds -------------------------------- *)
MaxUrls == 3        \* most command-line words after the program name (URL runs)
MaxDebugArgs == 3   \* most command-line words after the program name (debugger.py)
MaxIndex == 10      \* largest playlist index typed on the command line
MaxFormats == 3     \* most stream descriptors describe returns
MaxCliFormats == 1  \* the same, in the runs that go through every command line
MaxMixed == 11      \* longest alternating part of a long format list
MaxTail == 6        \* longest audio-only tail of a long format list
MaxHeight == 2      \* largest 'height' of a descriptor
MaxFps == 1         \* largest 'fps' of a descriptor
MaxAbr == 1         \* largest 'abr' of a descriptor
MaxEntries == 1     \* most entries of a described playlist

(* --------------------------- Python values ---------------------------- *)
NoneVal == -1       \* Python's None where an integer may also stand
                    \* (model integers that can be None are >= 0, or are
                    \* kept apart by a separate flag)

(* ------------------------------ strings ------------------------------- *)
Prog == <<"p">>
OptPlaylist == <<"-", "-", "p", "l", "a", "y", "l", "i", "s", "t">>
OptRange == <<"-", "-", "r", "a", "n", "g", "e">>
OptCheckFormats == <<"-", "-", "c", "h", "e", "c", "k", "-", "f", "o", "r", "m", "a", "t", "s">>
OptPlatforms == <<"-", "-", "p", "l", "a", "t", "f", "o", "r", "m", "s">>
OptOther == <<"-", "-", "x">>
WordEnd == <<"e", "n", "d">>
WordAbc == <<"a", "b", "c">>
UrlVideo1 == <<"v", "1">>
UrlVideo2 == <<"v", "2">>
UrlList == <<"l", "i", "s", "t", "=", "1">>
KwPlaylist == <<"p", "l", "a", "y", "l", "i", "s", "t">>
KwList == <<"l", "i", "s", "t", "=">>
AnswerY == <<"y">>
Answers == {<<"y">>, <<"Y">>, <<"n">>, <<"y", "e", "s">>, <<>>}

\* x in seq
InSeq(x, s) == \E k \in 1..Len(s) : s[k] = x

\* s.startswith(prefix)
StartsWith(s, prefix) ==
  /\ Len(s) >= Len(prefix)
  /\ SubSeq(s, 1, Len(prefix)) = prefix

\* keyword in s  (substring test)
Contains(s, keyword) ==
  \E k \in 1..(Len(s) + 1) :
     /\ k + Len(keyword) - 1 <= Len(s)
     /\ SubSeq(s, k, k + Len(keyword) - 1) = keyword

\* str.lower(), character by character
LowerChar(c) ==
  CASE c = "Y" -> "y"
    [] c = "N" -> "n"
    [] c = "E" -> "e"
    [] c = "S" -> "s"
    [] OTHER -> c

Lower(s) == [k \in 1..Len(s) |-> LowerChar(s[k])]

DigitChars == <<"0", "1", "2", "3", "4", "5", "6", "7", "8", "9">>

IsDigit(c) == \E d \in 1..10 : DigitChars[d] = c

DigitValue(c) == (CHOOSE d \in 1..10 : DigitChars[d] = c) - 1

\* str(n) of a natural number
RECURSIVE NatToStr(_)
NatToStr(n) ==
  IF n < 10 THEN <<DigitChars[n + 1]>>
  ELSE NatToStr(n \div 10) \o <<DigitChars[(n % 10) + 1]>>

\* str(n), as an f-string prints an int
IntToStr(n) == IF n < 0 THEN <<"-">> \o NatToStr(0 - n) ELSE NatToStr(n)

RECURSIVE DigitsValue(_)
DigitsValue(s) ==
  IF s = <<>> THEN 0
  ELSE 10 * DigitsValue(SubSeq(s, 1, Len(s) - 1)) + DigitValue(s[Len(s)])

AllDigits(s) == Len(s) >= 1 /\ \A k \in 1..Len(s) : IsDigit(s[k])

\* int(s) succeeds: an optional sign and at least one digit
IsIntLiteral(s) ==
  \/ AllDigits(s)
  \/ Len(s) >= 2 /\ s[1] \in {"-", "+"} /\ AllDigits(Tail(s))

\* int(s), for a string that int() accepts
ParseInt(s) ==
  IF s[1] = "-" THEN 0 - DigitsValue(Tail(s))
  ELSE IF s[1] = "+" THEN DigitsValue(Tail(s))
  ELSE DigitsValue(s)

\* sequences over a set, up to a length
SeqsUpTo(S, n) == UNION {[1..k -> S] : k \in 0..n}

(* ------------------------- format selectors --------------------------- *)
SelBest == "best"
SelBestVideoAudio == "bestvideo+bestaudio/best"
Sel1080 == "bestvideo[height>=1080]+bestaudio/bestvideo[height>=720]+bestaudio/best"
SelWorst == "worst"
SelDownloader == "bestvideo[height>=1080]+bestaudio/bestvideo+bestaudio/best"
SelAny == "bestvideo[height>=1080]+bestaudio/bestvideo[height>=720]+bestaudio/bestvideo+bestaudio/best[height>=1080]/best[height>=720]/best"

\* debugger.py, download_highest_quality: the strategies in list order
format_options == <<SelBest, SelBestVideoAudio, Sel1080, SelWorst>>

\* the 'format' option of download_best_quality_video, per script
BestQualityFormat(scr) == IF scr = "anyvideodownload" THEN SelAny ELSE SelDownloader

(* ------------------------ stream descriptors -------------------------- *)
\* One dictionary of info['formats'], without its format_id.  height 0
\* stands for every falsy height (0, None, key absent); fps and abr are
\* NoneVal for an explicit None and 0 for an absent key (the .get default).
VideoOnlyKinds ==
  [vcodec : {"avc1"}, acodec : {"none"}, height : 1..MaxHeight,
   fps : {NoneVal} \cup (0..MaxFps), abr : {0}]

CombinedKinds ==
  [vcodec : {"avc1"}, acodec : {"mp4a"}, height : {1}, fps : {0}, abr : {0}]

AudioOnlyKinds ==
  [vcodec : {"none"}, acodec : {"mp4a"}, height : {0}, fps : {0},
   abr : {NoneVal} \cup (0..MaxAbr)]

OtherKinds ==
  [vcodec : {"none"}, acodec : {"none"}, height : {1}, fps : {0}, abr : {0}]
    \cup [vcodec : {"avc1"}, acodec : {"none"}, height : {0}, fps : {0}, abr : {0}]

Kinds == VideoOnlyKinds \cup CombinedKinds \cup AudioOnlyKinds \cup OtherKinds

\* The format list of one describe result: the k-th descriptor gets
\* format_id k, so that equal-looking descriptors stay distinguishable.
WithIds(ks) ==
  [k \in 1..Len(ks) |->
     [format_id |-> k, vcodec |-> ks[k].vcodec, acodec |-> ks[k].acodec,
      height |-> ks[k].height, fps |-> ks[k].fps, abr |-> ks[k].abr]]

FormatLists == {WithIds(ks) : ks \in SeqsUpTo(Kinds, MaxFormats)}

CliFormatLists == {WithIds(ks) : ks \in SeqsUpTo(Kinds, MaxCliFormats)}

\* Format lists longer than MaxFormats, as many as a real site has: n
\* descriptors that are a and b in turn, then m audio-only descriptors c.
\* Their fps and abr are never None (the short lists cover that).
AlternatingThen(a, b, n, c, m) ==
  [k \in 1..(n + m) |-> IF k > n THEN c ELSE IF k % 2 = 1 THEN a ELSE b]

LongFormatLists ==
  {WithIds(AlternatingThen(a, b, n, c, m)) :
     a \in {x \in Kinds : x.fps # NoneVal /\ x.abr # NoneVal},
     b \in {x \in Kinds : x.fps # NoneVal /\ x.abr # NoneVal},
     c \in {x \in AudioOnlyKinds : x.abr # NoneVal},
     n \in (MaxFormats + 1)..MaxMixed,
     m \in 0..MaxTail}

NoFormat == [format_id |-> 0, vcodec |-> "none", acodec |-> "none",
             height |-> 0, fps |-> 0, abr |-> 0]

\* f.get('vcodec') != 'none' and f.get('height')
IsVideoFormat(f) == f.vcodec # "none" /\ f.height # 0 /\ f.height # NoneVal

\* IsAudioFormat as an `if` of its own, not the `elif` of the video test
IsAudioFormatNoElif(f) == f.acodec # "none"

\* elif f.get('acodec') != 'none'
IsAudioFormat(f) == ~IsVideoFormat(f) /\ f.acodec # "none"


\* the loop of lines 47-51
VideoPartition(fs) == SelectSeq(fs, IsVideoFormat)
AudioPartition(fs) == SelectSeq(fs, IsAudioFormat)

\* key=lambda x: (x.get('height', 0), x.get('fps', 0))
VideoKey(f) == <<f.height, f.fps>>

\* Python's k1 < k2 on two such tuples, when it does not raise
KeyLess(k1, k2) == k1[1] < k2[1] \/ (k1[1] = k2[1] /\ k1[2] < k2[2])

\* Comparing the keys raises TypeError: the heights are equal, so the
\* tuples are told apart by fps, and exactly one fps is None.
KeyCompareRaises(k1, k2) ==
  /\ k1[1] = k2[1]
  /\ (k1[2] = NoneVal) # (k2[2] = NoneVal)

\* video_formats.sort(...) raises: a comparison sort must compare two keys
\* that end up adjacent, so it raises exactly when two keys cannot be compared
VideoSortRaises(vs) ==
  \E a \in 1..Len(vs), b \in 1..Len(vs) :
     KeyCompareRaises(VideoKey(vs[a]), VideoKey(vs[b]))

\* InsertDescending without reverse=True: smallest key first
RECURSIVE InsertAscending(_, _)
InsertAscending(x, s) ==
  IF s = <<>> THEN <<x>>
  ELSE IF KeyLess(VideoKey(x), VideoKey(Head(s))) THEN <<x>> \o s
  ELSE <<Head(s)>> \o InsertAscending(x, Tail(s))

\* one step of a stable descending sort: x goes behind every element whose
\* key is not smaller than its own
RECURSIVE InsertDescending(_, _)
InsertDescending(x, s) ==
  IF s = <<>> THEN <<x>>
  ELSE IF KeyLess(VideoKey(Head(s)), VideoKey(x)) THEN <<x>> \o s
  ELSE <<Head(s)>> \o InsertDescending(x, Tail(s))

RECURSIVE SortVideoFrom(_, _)
SortVideoFrom(rest, sorted) ==
  IF rest = <<>> THEN sorted
  ELSE SortVideoFrom(Tail(rest), InsertDescending(Head(rest), sorted))

\* video_formats.sort(key=..., reverse=True): stable, largest key first
SortVideo(vs) == SortVideoFrom(vs, <<>>)

\* audio_formats.sort(key=lambda x: x.get('abr', 0), reverse=True) raises:
\* any comparison with a None key does, and with two or more elements every
\* element is compared
AudioSortRaises(as) ==
  /\ Len(as) >= 2
  /\ \E a \in 1..Len(as) : as[a].abr = NoneVal

RECURSIVE InsertAudioDescending(_, _)
InsertAudioDescending(x, s) ==
  IF s = <<>> THEN <<x>>
  ELSE IF Head(s).abr < x.abr THEN <<x>> \o s
  ELSE <<Head(s)>> \o InsertAudioDescending(x, Tail(s))

RECURSIVE SortAudioFrom(_, _)
SortAudioFrom(rest, sorted) ==
  IF rest = <<>> THEN sorted
  ELSE SortAudioFrom(Tail(rest), InsertAudioDescending(Head(rest), sorted))

SortAudio(as) == SortAudioFrom(as, <<>>)

\* max(video_formats, key=...): the first element no later one exceeds
RECURSIVE MaxFrom(_, _)
MaxFrom(rest, best) ==
  IF rest = <<>> THEN best
  ELSE IF KeyLess(VideoKey(best), VideoKey(Head(rest)))
       THEN MaxFrom(Tail(rest), Head(rest))
  ELSE MaxFrom(Tail(rest), best)

BestVideo(vs) == IF vs = <<>> THEN NoFormat ELSE MaxFrom(Tail(vs), Head(vs))

\* how many sorted descriptors check_available_formats prints
TopVideo == 10
TopAudio == 5

FirstN(s, n) == SubSeq(s, 1, IF Len(s) < n THEN Len(s) ELSE n)

\* the rows of lines 57-69 that get printed: those of video_formats[:10],
\* up to the first whose fps is None
VideoRows(vs) ==
  LET rows == FirstN(vs, TopVideo)
      bad == {k \in 1..Len(rows) : rows[k].fps = NoneVal}
  IN  IF bad = {} THEN rows
      ELSE SubSeq(rows, 1, (CHOOSE k \in bad : \A j \in bad : k <= j) - 1)

\* the rows of lines 73-79 that get printed: those of audio_formats[:5],
\* up to the first whose abr is None
AudioRows(as) ==
  LET rows == FirstN(as, TopAudio)
      bad == {k \in 1..Len(rows) : rows[k].abr = NoneVal}
  IN  IF bad = {} THEN rows
      ELSE SubSeq(rows, 1, (CHOOSE k \in bad : \A j \in bad : k <= j) - 1)

\* line 69, f"{fps:<5}": formatting None with a width raises TypeError
VideoPrintRaises(vs) ==
  \E k \in 1..Len(FirstN(vs, TopVideo)) : vs[k].fps = NoneVal

\* line 79, f"{abr:<5}": the same for the audio rows
AudioPrintRaises(as) ==
  \E k \in 1..Len(FirstN(as, TopAudio)) : as[k].abr = NoneVal

Orderings(s) ==
  {[k \in 1..Len(s) |-> s[p[k]]] :
     p \in {q \in [1..Len(s) -> 1..Len(s)] :
              \A a, b \in 1..Len(s) : a # b => q[a] # q[b]}}

\* The body of check_available_formats after a successful describe that
\* returned the format list fs: the stage at which the function ends and
\* the values of its local lists at that point.  A sort that raises leaves
\* its list in an unspecified order (vsLeft is that order).  shown_video
\* and shown_audio are the rows printed under the two headings.
CheckFormatsBody(fs, vsLeft) ==
  LET vs == VideoPartition(fs)
      as == AudioPartition(fs)
      dead == [stage |-> "no_formats", video |-> <<>>, audio |-> <<>>, best |-> NoFormat,
               shown_video |-> <<>>, shown_audio |-> <<>>]
  IN  IF fs = <<>> THEN dead
      ELSE IF VideoSortRaises(vs)
        THEN [dead EXCEPT !.stage = "video_sort_raised", !.video = vsLeft, !.audio = as]
      ELSE IF VideoPrintRaises(SortVideo(vs))
        THEN [dead EXCEPT !.stage = "video_print_raised", !.video = SortVideo(vs), !.audio = as,
                          !.shown_video = VideoRows(SortVideo(vs))]
      ELSE IF AudioSortRaises(as)
        THEN [dead EXCEPT !.stage = "audio_sort_raised", !.video = SortVideo(vs), !.audio = as,
                          !.shown_video = VideoRows(SortVideo(vs))]
      ELSE IF AudioPrintRaises(SortAudio(as))
        THEN [dead EXCEPT !.stage = "audio_print_raised", !.video = SortVideo(vs),
                          !.audio = SortAudio(as),
                          !.shown_video = VideoRows(SortVideo(vs)),
                          !.shown_audio = AudioRows(SortAudio(as))]
      ELSE [stage |-> "done", video |-> SortVideo(vs), audio |-> SortAudio(as),
            best |-> BestVideo(SortVideo(vs)),
            shown_video |-> VideoRows(SortVideo(vs)),
            shown_audio |-> AudioRows(SortAudio(as))]

(* --------------------------- playlist range --------------------------- *)
\* the parameter `end` of download_playlist_range: None or an int
NoneEnd == [none |-> TRUE, val |-> 0]
IntEnd(n) == [none |-> FALSE, val |-> n]

\* Python's truth value of `end`
Truthy(e) == ~e.none /\ e.val # 0

\* line 136: f"{start}:{end}" if end else f"{start}:"
PlaylistItems(st, e) ==
  IF Truthy(e) THEN IntToStr(st) \o <<":">> \o IntToStr(e.val)
  ELSE IntToStr(st) \o <<":">>

(* ----------------------------- the state ------------------------------ *)
VARIABLES
  script,         \* which script runs
  site,           \* the 'formats' the library finds at the URL (debugger.py)
  argv,           \* sys.argv
  pc,             \* the statement the run is at
  ctx,            \* the caller of the function the run is in
  url,            \* the url argument of that function
  urls,           \* download_multiple_videos: its urls argument
  idx,            \* the loop index: i of enumerate(urls, 1), or the strategy number
  success_count,  \* download_multiple_videos: success_count
  summary,        \* the counts of the printed summary line, <<>> before it
  prompts,        \* every input() so far: the question and the answer typed
  output_dir,     \* TRUE once Path(output_path).mkdir has run
  calls,          \* every describe and fetch so far, with its outcome
  ret,            \* the value returned to main by the function it called
  start,          \* download_playlist_range: start
  end,            \* download_playlist_range: end
  video_count,    \* download_playlist: len(info['entries']), NoneVal without the key
  caf_stage,      \* check_available_formats: where its body ended
  formats,        \* check_available_formats: formats = info.get('formats', [])
  video_formats,  \* check_available_formats: video_formats
  audio_formats,  \* check_available_formats: audio_formats
  best_video,     \* check_available_formats: best_video
  shown_video,    \* check_available_formats: the video rows printed
  shown_audio,    \* check_available_formats: the audio rows printed
  steps           \* download_best_quality_video: what it did so far, in order

vars == <<script, site, argv, pc, ctx, url, urls, idx, success_count, summary, prompts,
          output_dir, calls, ret, start, end, video_count, caf_stage, formats,
          video_formats, audio_formats, best_video, shown_video, shown_audio,
          steps>>

cafVars == <<caf_stage, formats, video_formats, audio_formats, best_video,
             shown_video, shown_audio>>
rangeVars == <<start, end>>
loopVars == <<urls, idx, success_count, summary>>

Scripts == {"downloader", "debugger", "anyvideodownload"}

\* sys.argv[k]
Arg(av, k) == av[k + 1]

NumWords == {IntToStr(n) : n \in (0 - 1)..MaxIndex}
RangeWords == NumWords \cup {WordEnd, WordAbc}

UrlRuns ==
  {<<Prog>> \o w : w \in SeqsUpTo({UrlVideo1, UrlVideo2, UrlList, OptOther}, MaxUrls)}

PlaylistRuns ==
  {<<Prog>> \o w : w \in {v \in SeqsUpTo({OptPlaylist, UrlList}, 2) : InSeq(OptPlaylist, v)}}

RangeRuns ==
  {<<Prog, OptRange>> \o w :
     w \in {v \in SeqsUpTo(RangeWords \cup {UrlList}, 3) :
              /\ Len(v) >= 1 => v[1] = UrlList
              /\ \A k \in 2..Len(v) : v[k] \in RangeWords}}

Argvs(scr) ==
  CASE scr = "downloader" -> UrlRuns \cup PlaylistRuns \cup RangeRuns
    [] scr = "debugger" ->
         {<<Prog>> \o w : w \in SeqsUpTo({UrlVideo1, OptCheckFormats}, MaxDebugArgs)}
    [] scr = "anyvideodownload" ->
         {<<Prog>> \o w : w \in SeqsUpTo({UrlVideo1, UrlVideo2, OptPlatforms}, MaxUrls)}

\* the state of a run before main, but for the command line and the site
Start ==
  /\ pc = "main"
  /\ ctx = "main"
  /\ url = <<>>
  /\ urls = <<>>
  /\ idx = 0
  /\ success_count = 0
  /\ summary = <<>>
  /\ prompts = <<>>
  /\ output_dir = FALSE
  /\ calls = <<>>
  /\ ret = "unset"
  /\ start = 0
  /\ end = NoneEnd
  /\ video_count = NoneVal
  /\ caf_stage = "none"
  /\ formats = <<>>
  /\ video_formats = <<>>
  /\ audio_formats = <<>>
  /\ best_video = NoFormat
  /\ shown_video = <<>>
  /\ shown_audio = <<>>
  /\ steps = <<>>

\* any script, any command line of its kind
Init ==
  /\ script \in Scripts
  /\ argv \in Argvs(script)
  /\ site \in IF script = "debugger" THEN CliFormatLists ELSE {<<>>}
  /\ Start

\* debugger.py <URL> --check-formats, over every format list
InitFormats ==
  /\ script = "debugger"
  /\ argv = <<Prog, UrlVideo1, OptCheckFormats>>
  /\ site \in FormatLists \cup LongFormatLists
  /\ Start

\* one entry of the log of library calls
Describe(u, fmt, ok) ==
  [op |-> "describe", url |-> u, format |-> fmt, items |-> <<>>, ok |-> ok]

Fetch(u, fmt, items, ok) ==
  [op |-> "fetch", url |-> u, format |-> fmt, items |-> items, ok |-> ok]

Asked(q, a) == [question |-> q, answer |-> a]

(* ============================ debugger.py ============================= *)
\* main, lines 145-163: where the run goes from the command line
DebuggerDispatch(av) ==
  IF Len(av) < 2 THEN [pc |-> "exit", ctx |-> "main", url |-> <<>>]
  ELSE IF InSeq(OptCheckFormats, av) /\ Len(av) = 3
    THEN [pc |-> "caf", ctx |-> "main", url |-> Arg(av, 1)]
  ELSE IF InSeq(OptCheckFormats, av)
    THEN [pc |-> "caf", ctx |-> "dhq", url |-> Arg(av, 1)]
  ELSE [pc |-> "dhq_mkdir", ctx |-> "main", url |-> Arg(av, 1)]

DebuggerMain ==
  /\ pc = "main"
  /\ script = "debugger"
  /\ LET d == DebuggerDispatch(argv)
     IN  /\ pc' = d.pc
         /\ ctx' = d.ctx
         /\ url' = d.url
  /\ UNCHANGED <<script, site, argv, steps, loopVars, prompts, output_dir, calls, ret,
                 rangeVars, video_count, cafVars>>

\* check_available_formats(url), lines 13-87
CheckAvailableFormats ==
  /\ pc = "caf"
  /\ \E ok \in BOOLEAN :
       /\ calls' = Append(calls, Describe(url, "", ok))
       /\ IF ~ok
          THEN /\ caf_stage' = "describe_failed"
               /\ UNCHANGED <<formats, video_formats, audio_formats, best_video,
                              shown_video, shown_audio>>
          ELSE \E vsLeft \in IF VideoSortRaises(VideoPartition(site))
                             THEN Orderings(VideoPartition(site))
                             ELSE {VideoPartition(site)} :
                 LET b == CheckFormatsBody(site, vsLeft)
                 IN  /\ caf_stage' = b.stage
                     /\ formats' = site
                     /\ video_formats' = b.video
                     /\ audio_formats' = b.audio
                     /\ best_video' = b.best
                     /\ shown_video' = b.shown_video
                     /\ shown_audio' = b.shown_audio
  /\ pc' = "caf_done"
  /\ UNCHANGED <<script, site, argv, steps, ctx, url, loopVars, prompts, output_dir, ret,
                 rangeVars, video_count>>

\* check_available_formats returns (always None): its locals are gone
CafReturn ==
  /\ pc = "caf_done"
  /\ caf_stage' = "none"
  /\ formats' = <<>>
  /\ video_formats' = <<>>
  /\ audio_formats' = <<>>
  /\ best_video' = NoFormat
  /\ shown_video' = <<>>
  /\ shown_audio' = <<>>
  /\ pc' = IF ctx = "dhq" THEN "dhq_prompt" ELSE "exit"
  /\ UNCHANGED <<script, site, argv, steps, ctx, url, loopVars, prompts, output_dir, calls,
                 ret, rangeVars, video_count>>

\* ContinueAfterPrompt taking everything but 'n' for a yes
ContinueUnlessN(answer) == Lower(answer) # <<"n">>

\* lines 96-98: response.lower() != 'y' returns before anything else
ContinueAfterPrompt(answer) == Lower(answer) = AnswerY

DhqPrompt ==
  /\ pc = "dhq_prompt"
  /\ \E a \in Answers :
       /\ prompts' = Append(prompts, Asked("continue", a))
       /\ IF ContinueAfterPrompt(a)
          THEN pc' = "dhq_mkdir" /\ ret' = ret
          ELSE pc' = "exit" /\ ret' = "None"
  /\ UNCHANGED <<script, site, argv, steps, ctx, url, loopVars, output_dir, calls,
                 rangeVars, video_count, cafVars>>

\* line 100, and the loop of line 114 starts with i = 0
DhqMkdir ==
  /\ pc = "dhq_mkdir"
  /\ output_dir' = TRUE
  /\ idx' = 0
  /\ pc' = "dhq_loop"
  /\ UNCHANGED <<script, site, argv, steps, ctx, url, urls, success_count, summary, prompts,
                 calls, ret, rangeVars, video_count, cafVars>>

\* StrategyLeft with the last strategy left out of the loop
StrategyLeftButLast(i) == i < Len(format_options) - 1

\* line 114: the loop has another strategy for index i
StrategyLeft(i) == i < Len(format_options)

\* AfterStrategy without the return of line 133: the loop goes on
AfterStrategyNoReturn(i, ok) ==
  [pc |-> "dhq_loop", idx |-> i + 1, ret |-> IF ok THEN "True" ELSE "unset"]

\* lines 128-139: what follows the download of strategy i
AfterStrategy(i, ok) ==
  IF ok THEN [pc |-> "exit", idx |-> i, ret |-> "True"]
  ELSE [pc |-> "dhq_loop", idx |-> i + 1, ret |-> "unset"]

\* one pass of the loop body, lines 115-139
DhqTry ==
  /\ pc = "dhq_loop"
  /\ StrategyLeft(idx)
  /\ \E ok \in BOOLEAN :
       /\ calls' = Append(calls, Fetch(url, format_options[idx + 1], <<>>, ok))
       /\ LET a == AfterStrategy(idx, ok)
          IN  /\ pc' = a.pc
              /\ idx' = a.idx
              /\ ret' = a.ret
  /\ UNCHANGED <<script, site, argv, steps, ctx, url, urls, success_count, summary, prompts,
                 output_dir, rangeVars, video_count, cafVars>>

\* lines 141-142
DhqAllFailed ==
  /\ pc = "dhq_loop"
  /\ ~StrategyLeft(idx)
  /\ ret' = "False"
  /\ pc' = "exit"
  /\ UNCHANGED <<script, site, argv, steps, ctx, url, loopVars, prompts, output_dir, calls,
                 rangeVars, video_count, cafVars>>

(* ================ downloader.py and anyvideodownload.py =============== *)
\* downloader.py, detect_youtube_url_type, lines 184-191
detect_youtube_url_type(u) ==
  IF Contains(u, KwPlaylist) \/ Contains(u, KwList) THEN "playlist" ELSE "video"

\* not arg.startswith('--')
NotOption(arg) == ~StartsWith(arg, <<"-", "-">>)

\* [arg for arg in sys.argv[1:] if not arg.startswith('--')]
UrlArgs(av) == SelectSeq(Tail(av), NotOption)

Stop == [pc |-> "exit", ctx |-> "main", url |-> <<>>, urls |-> <<>>,
         start |-> 0, end |-> NoneEnd]

\* downloader.py, main, lines 199-262: where the run goes from the command line
DownloaderDispatch(av) ==
  IF Len(av) < 2 THEN Stop
  ELSE IF InSeq(OptPlaylist, av)
    THEN IF Len(av) < 3 THEN Stop
         ELSE [Stop EXCEPT !.pc = "dp_mkdir", !.url = Arg(av, 2)]
  ELSE IF InSeq(OptRange, av)
    THEN IF Len(av) < 5 THEN Stop
         ELSE IF ~IsIntLiteral(Arg(av, 3)) THEN Stop
         ELSE IF Arg(av, 4) # WordEnd /\ ~IsIntLiteral(Arg(av, 4)) THEN Stop
         ELSE [Stop EXCEPT !.pc = "dpr_mkdir", !.url = Arg(av, 2),
                           !.start = ParseInt(Arg(av, 3)),
                           !.end = IF Arg(av, 4) # WordEnd
                                   THEN IntEnd(ParseInt(Arg(av, 4)))
                                   ELSE NoneEnd]
  ELSE IF Len(UrlArgs(av)) = 1
    THEN IF detect_youtube_url_type(UrlArgs(av)[1]) = "playlist"
         THEN [Stop EXCEPT !.pc = "single_prompt", !.url = UrlArgs(av)[1]]
         ELSE [Stop EXCEPT !.pc = "dbqv_mkdir", !.url = UrlArgs(av)[1]]
  ELSE [Stop EXCEPT !.pc = "dmv_loop", !.urls = UrlArgs(av)]

\* anyvideodownload.py, main, lines 145-173
AnyDispatch(av) ==
  IF Len(av) < 2 THEN Stop
  ELSE IF InSeq(OptPlatforms, av) THEN Stop
  ELSE IF Len(UrlArgs(av)) = 1
    THEN [Stop EXCEPT !.pc = "dbqv_mkdir", !.url = UrlArgs(av)[1]]
  ELSE [Stop EXCEPT !.pc = "dmv_loop", !.urls = UrlArgs(av)]

\* main of downloader.py or anyvideodownload.py, up to the call it makes;
\* entering download_multiple_videos sets success_count = 0 and i = 1
Main ==
  /\ pc = "main"
  /\ script \in {"downloader", "anyvideodownload"}
  /\ LET d == IF script = "downloader" THEN DownloaderDispatch(argv)
              ELSE AnyDispatch(argv)
     IN  /\ pc' = d.pc
         /\ ctx' = d.ctx
         /\ url' = d.url
         /\ urls' = d.urls
         /\ start' = d.start
         /\ end' = d.end
  /\ idx' = 1
  /\ success_count' = 0
  /\ UNCHANGED <<script, site, argv, steps, summary, prompts, output_dir, calls, ret,
                 video_count, cafVars>>

\* downloader.py, main, lines 253-257: a lone playlist URL asks first
SinglePrompt ==
  /\ pc = "single_prompt"
  /\ \E a \in Answers :
       /\ prompts' = Append(prompts, Asked("single", a))
       /\ pc' = IF Lower(a) = AnswerY THEN "dbqv_mkdir" ELSE "exit"
  /\ UNCHANGED <<script, site, argv, steps, ctx, url, loopVars, output_dir, calls, ret,
                 rangeVars, video_count, cafVars>>

(* ----------------------- download_multiple_videos --------------------- *)
\* the for statement (downloader.py line 174, anyvideodownload.py line
\* 128) has another url for index i
UrlLeft(us, i) == i <= Len(us)

\* the loop body up to the call of download_best_quality_video(url)
DmvNext ==
  /\ pc = "dmv_loop"
  /\ UrlLeft(urls, idx)
  /\ url' = urls[idx]
  /\ ctx' = "dmv"
  /\ pc' = "dbqv_mkdir"
  /\ UNCHANGED <<script, site, argv, steps, loopVars, prompts, output_dir, calls, ret,
                 rangeVars, video_count, cafVars>>

\* the summary line after the loop (line 181, line 137)
DmvSummary ==
  /\ pc = "dmv_loop"
  /\ ~UrlLeft(urls, idx)
  /\ summary' = <<success_count, Len(urls)>>
  /\ pc' = "exit"
  /\ UNCHANGED <<script, site, argv, steps, ctx, url, urls, idx, success_count, prompts,
                 output_dir, calls, ret, rangeVars, video_count, cafVars>>

(* --------------------- download_best_quality_video -------------------- *)
\* AfterVideo counting every url, whatever was returned
AfterVideoCountAll(c, ok, i, count) ==
  IF c = "dmv"
  THEN [pc |-> "dmv_loop", idx |-> i + 1, success_count |-> count + 1]
  ELSE [pc |-> "exit", idx |-> i, success_count |-> count]

\* AfterVideo leaving the loop at the first url that fails
AfterVideoStopOnFailure(c, ok, i, count) ==
  IF c = "dmv" /\ ok
  THEN [pc |-> "dmv_loop", idx |-> i + 1, success_count |-> count + 1]
  ELSE [pc |-> "exit", idx |-> i, success_count |-> count]

\* What the caller does with the returned value: the loop of
\* download_multiple_videos counts a True and goes on to the next url
\* (lines 178-179, lines 134-135); main drops it.
AfterVideo(c, ok, i, count) ==
  IF c = "dmv"
  THEN [pc |-> "dmv_loop", idx |-> i + 1,
        success_count |-> IF ok THEN count + 1 ELSE count]
  ELSE [pc |-> "exit", idx |-> i, success_count |-> count]

\* one entry of steps: mkdir, describe or fetch with its outcome, or the
\* return with the value returned
Step(ev, ok) == [ev |-> ev, ok |-> ok]

\* return False of line 52 (112) after done, or return True of line 54 (114)
VideoReturns(ok, done) ==
  LET a == AfterVideo(ctx, ok, idx, success_count)
  IN  /\ pc' = a.pc
      /\ idx' = a.idx
      /\ success_count' = a.success_count
      /\ ret' = IF ctx = "dmv" THEN ret ELSE IF ok THEN "True" ELSE "False"
      /\ steps' = Append(done, Step("return", ok))

\* line 23 (line 68)
DbqvMkdir ==
  /\ pc = "dbqv_mkdir"
  /\ output_dir' = TRUE
  /\ steps' = Append(steps, Step("mkdir", TRUE))
  /\ pc' = "dbqv_describe"
  /\ UNCHANGED <<script, site, argv, ctx, url, loopVars, prompts, calls, ret,
                 rangeVars, video_count, cafVars>>

\* DbqvDescribe going on to download whatever extract_info did
DbqvDescribeGoesOn ==
  /\ pc = "dbqv_describe"
  /\ \E ok \in BOOLEAN :
       /\ calls' = Append(calls, Describe(url, BestQualityFormat(script), ok))
       /\ steps' = Append(steps, Step("describe", ok))
  /\ pc' = "dbqv_fetch"
  /\ UNCHANGED <<script, site, argv, ctx, url, loopVars, prompts, output_dir, ret,
                 rangeVars, video_count, cafVars>>

\* line 41 (line 100): extract_info raises, or the run goes on to download
DbqvDescribe ==
  /\ pc = "dbqv_describe"
  /\ \E ok \in BOOLEAN :
       /\ calls' = Append(calls, Describe(url, BestQualityFormat(script), ok))
       /\ IF ok
          THEN /\ pc' = "dbqv_fetch"
               /\ steps' = Append(steps, Step("describe", TRUE))
               /\ UNCHANGED <<idx, success_count, ret>>
          ELSE VideoReturns(FALSE, Append(steps, Step("describe", FALSE)))
  /\ UNCHANGED <<script, site, argv, ctx, url, urls, summary, prompts, output_dir,
                 rangeVars, video_count, cafVars>>

\* line 47 (line 107), and the return of lines 50-54 (110-114)
DbqvFetch ==
  /\ pc = "dbqv_fetch"
  /\ \E ok \in BOOLEAN :
       /\ calls' = Append(calls, Fetch(url, BestQualityFormat(script), <<>>, ok))
       /\ VideoReturns(ok, Append(steps, Step("fetch", ok)))
  /\ UNCHANGED <<script, site, argv, ctx, url, urls, summary, prompts, output_dir,
                 rangeVars, video_count, cafVars>>

(* -------------------------- download_playlist ------------------------- *)
\* line 67
DpMkdir ==
  /\ pc = "dp_mkdir"
  /\ output_dir' = TRUE
  /\ pc' = "dp_describe"
  /\ UNCHANGED <<script, site, argv, steps, ctx, url, loopVars, prompts, calls, ret,
                 rangeVars, video_count, cafVars>>

\* lines 89-113: after extract_info; n is len(info['entries']), or NoneVal
\* when info has no 'entries' key
AfterPlaylistDescribe(ok, n) ==
  IF ok /\ n # NoneVal THEN [pc |-> "dp_prompt", ret |-> "unset"]
  ELSE [pc |-> "exit", ret |-> "False"]

DpDescribe ==
  /\ pc = "dp_describe"
  /\ \E ok \in BOOLEAN :
       \E n \in IF ok THEN {NoneVal} \cup (0..MaxEntries) ELSE {NoneVal} :
         /\ calls' = Append(calls, Describe(url, SelDownloader, ok))
         /\ video_count' = n
         /\ pc' = AfterPlaylistDescribe(ok, n).pc
         /\ ret' = AfterPlaylistDescribe(ok, n).ret
  /\ UNCHANGED <<script, site, argv, steps, ctx, url, loopVars, prompts, output_dir,
                 rangeVars, cafVars>>

\* PlaylistConfirmed taking everything but 'n' for a yes
PlaylistConfirmedUnlessN(answer) == Lower(answer) # <<"n">>

\* lines 101-104
PlaylistConfirmed(answer) == Lower(answer) = AnswerY

DpPrompt ==
  /\ pc = "dp_prompt"
  /\ \E a \in Answers :
       /\ prompts' = Append(prompts, Asked("playlist", a))
       /\ IF PlaylistConfirmed(a)
          THEN pc' = "dp_fetch" /\ ret' = ret
          ELSE pc' = "exit" /\ ret' = "False"
  /\ UNCHANGED <<script, site, argv, steps, ctx, url, loopVars, output_dir, calls,
                 rangeVars, video_count, cafVars>>

\* lines 107-119
DpFetch ==
  /\ pc = "dp_fetch"
  /\ \E ok \in BOOLEAN :
       /\ calls' = Append(calls, Fetch(url, SelDownloader, <<>>, ok))
       /\ ret' = IF ok THEN "True" ELSE "False"
  /\ pc' = "exit"
  /\ UNCHANGED <<script, site, argv, steps, ctx, url, loopVars, prompts, output_dir,
                 rangeVars, video_count, cafVars>>

(* ----------------------- download_playlist_range ---------------------- *)
\* line 133
DprMkdir ==
  /\ pc = "dpr_mkdir"
  /\ output_dir' = TRUE
  /\ pc' = "dpr_fetch"
  /\ UNCHANGED <<script, site, argv, steps, ctx, url, loopVars, prompts, calls, ret,
                 rangeVars, video_count, cafVars>>

\* lines 136-160
DprFetch ==
  /\ pc = "dpr_fetch"
  /\ \E ok \in BOOLEAN :
       /\ calls' = Append(calls, Fetch(url, SelDownloader, PlaylistItems(start, end), ok))
       /\ ret' = IF ok THEN "True" ELSE "False"
  /\ pc' = "exit"
  /\ UNCHANGED <<script, site, argv, steps, ctx, url, loopVars, prompts, output_dir,
                 rangeVars, video_count, cafVars>>

(* --------------------------- specification ---------------------------- *)
Next ==
  \/ DebuggerMain
  \/ CheckAvailableFormats
  \/ CafReturn
  \/ DhqPrompt
  \/ DhqMkdir
  \/ DhqTry
  \/ DhqAllFailed
  \/ Main
  \/ SinglePrompt
  \/ DmvNext
  \/ DmvSummary
  \/ DbqvMkdir
  \/ DbqvDescribe
  \/ DbqvFetch
  \/ DpMkdir
  \/ DpDescribe
  \/ DpPrompt
  \/ DpFetch
  \/ DprMkdir
  \/ DprFetch

Spec == Init /\ [][Next]_vars

\* the format inspection of debugger.py alone
NextFormats ==
  \/ DebuggerMain
  \/ CheckAvailableFormats
  \/ CafReturn

SpecFormats == InitFormats /\ [][NextFormats]_vars

(* ============================== claims ================================ *)
IsFetch(c) == c.op = "fetch"
IsDescribe(c) == c.op = "describe"
FetchCalls == SelectSeq(calls, IsFetch)
DescribeCalls == SelectSeq(calls, IsDescribe)
Yes == {<<"y">>, <<"Y">>}

\* the run is past main, in the multi-URL loop of downloader.py or
\* anyvideodownload.py
MultiUrlRun ==
  /\ script \in {"downloader", "anyvideodownload"}
  /\ pc # "main"
  /\ (IF script = "downloader" THEN DownloaderDispatch(argv)
      ELSE AnyDispatch(argv)).pc = "dmv_loop"

(* ------------------------------- C1 ----------------------------------- *)
\* C1: download_highest_quality makes at most N = len(format_options) fetch
\* attempts and stops at the first success: a successful attempt is the last
\* one made, the function has then returned True, and a returned True means
\* that the attempts before the last all failed and the last succeeded (k-1
\* failures and a success are exactly k attempts).
C1_StopsAtFirstSuccess ==
  script = "debugger" =>
    LET f == FetchCalls
    IN  /\ Len(f) <= Len(format_options)
        /\ \A k \in 1..Len(f) :
             f[k].ok => k = Len(f) /\ pc = "exit" /\ ret = "True"
        /\ ret = "True" =>
             /\ Len(f) >= 1
             /\ f[Len(f)].ok
             /\ \A k \in 1..(Len(f) - 1) : ~f[k].ok

\* two strategies failed, the third succeeded: three attempts, True
C1_Witness ==
  /\ script = "debugger"
  /\ ret = "True"
  /\ Len(FetchCalls) = 3
  /\ ~FetchCalls[1].ok /\ ~FetchCalls[2].ok /\ FetchCalls[3].ok

(* ------------------------------- C2 ----------------------------------- *)
\* C2: the strategies are attempted in the order of format_options, none
\* twice; when download_highest_quality has ended and every attempt made
\* failed, it returned False and every strategy of format_options was
\* attempted exactly once; it returns False in no other case.
C2_AllFailTriesEachOnce ==
  script = "debugger" =>
    LET f == FetchCalls
    IN  /\ \A k \in 1..Len(f) :
             k <= Len(format_options) /\ f[k].format = format_options[k]
        /\ (pc = "exit" /\ Len(f) >= 1 /\ \A k \in 1..Len(f) : ~f[k].ok) =>
             /\ ret = "False"
             /\ [k \in 1..Len(f) |-> f[k].format] = format_options
        /\ ret = "False" =>
             /\ Len(f) = Len(format_options)
             /\ \A k \in 1..Len(f) : ~f[k].ok

\* all four strategies failed
C2_Witness ==
  /\ script = "debugger"
  /\ pc = "exit"
  /\ ret = "False"
  /\ Len(FetchCalls) = 4
  /\ \A k \in 1..4 : ~FetchCalls[k].ok

(* ------------------------------- C3 ----------------------------------- *)
\* the preference the claim gives the selectors, most preferred first
ClaimedRank(fmt) ==
  CASE fmt = Sel1080 -> 1
    [] fmt = SelBestVideoAudio -> 2
    [] fmt = SelBest -> 3
    [] fmt = SelWorst -> 4
    [] OTHER -> 0

\* C3: the strategies download_highest_quality attempts go from the most
\* preferred selector to the weakest: 'video >=1080p + best audio' before
\* 'best video + best audio' before 'single best combined stream', and
\* 'worst' last; every later attempt uses a weaker selector than the one
\* before it.
C3_MostPreferredFirst ==
  script = "debugger" =>
    LET f == FetchCalls
    IN  \A j \in 1..Len(f), k \in 1..Len(f) :
          j < k => ClaimedRank(f[j].format) < ClaimedRank(f[k].format)

(* ------------------------------- C4 ----------------------------------- *)
\* the run goes through download_playlist_range
RangeRun ==
  /\ script = "downloader"
  /\ pc # "main"
  /\ DownloaderDispatch(argv).pc = "dpr_mkdir"

\* C4: the playlist item expression download_playlist_range passes to fetch
\* is "<start>:<end>" when an end is given and "<start>:" exactly when end
\* is None.
C4_ItemExpression ==
  RangeRun =>
    \A k \in 1..Len(calls) :
      calls[k].op = "fetch" =>
        /\ ~end.none =>
             calls[k].items = IntToStr(start) \o <<":">> \o IntToStr(end.val)
        /\ (calls[k].items = IntToStr(start) \o <<":">>) <=> end.none

(* ------------------------------- C5 ----------------------------------- *)
\* a comes no later than b in (height, frame rate) descending order
LexGeq(a, b) ==
  \/ a.height > b.height
  \/ a.height = b.height /\ a.fps >= b.fps

\* video_formats.sort has run to its end
VideoSorted ==
  caf_stage \in {"video_print_raised", "audio_sort_raised", "audio_print_raised", "done"}

SameElements(s, t) ==
  /\ Len(s) = Len(t)
  /\ \A x \in {s[k] : k \in 1..Len(s)} :
       Cardinality({k \in 1..Len(s) : s[k] = x}) = Cardinality({k \in 1..Len(t) : t[k] = x})

\* C5: in check_available_formats the video descriptors, once sorted, are
\* the video descriptors of the describe result in non-increasing (height,
\* frame rate) lexicographic order, and the descriptor reported as best is
\* the first of the sorted list and has the largest (height, frame rate).
C5_SortedAndBestIsMax ==
  /\ VideoSorted =>
       /\ SameElements(video_formats, SelectSeq(formats, IsVideoFormat))
       /\ \A k \in 1..(Len(video_formats) - 1) :
            LexGeq(video_formats[k], video_formats[k + 1])
  /\ (caf_stage = "done" /\ video_formats # <<>>) =>
       /\ best_video = video_formats[1]
       /\ \A k \in 1..Len(video_formats) : LexGeq(best_video, video_formats[k])
  /\ (caf_stage = "done" /\ video_formats = <<>>) => best_video = NoFormat

\* three video descriptors that describe returned in another order than
\* the sorted one, two of them of the same height; a best one is reported
C5_Witness ==
  /\ caf_stage = "done"
  /\ Len(video_formats) = 3
  /\ video_formats # SelectSeq(formats, IsVideoFormat)
  /\ video_formats[1].height = video_formats[2].height
  /\ video_formats[1].fps > video_formats[2].fps
  /\ best_video.format_id = video_formats[1].format_id

(* ------------------------------- C6 ----------------------------------- *)
\* how many elements of a sequence of calls succeeded
RECURSIVE CountOk(_)
CountOk(cs) ==
  IF cs = <<>> THEN 0
  ELSE (IF Head(cs).ok THEN 1 ELSE 0) + CountOk(Tail(cs))

\* C6: in a multi-URL run over the M URLs of the command line, the summary
\* reports S/M, where S is the number of URLs whose download succeeded (the
\* fetch of every such URL, and so its describe, went through); while the
\* loop runs, success_count is at most the number of URLs processed so far,
\* which is at most M.
C6_SummaryCounts ==
  MultiUrlRun =>
    /\ summary # <<>> =>
         /\ summary = <<CountOk(FetchCalls), Len(UrlArgs(argv))>>
         /\ success_count = CountOk(FetchCalls)
         /\ Len(DescribeCalls) = Len(UrlArgs(argv))
    /\ success_count <= idx - 1
    /\ idx - 1 <= Len(UrlArgs(argv))
    /\ success_count <= CountOk(FetchCalls)

\* three URLs, two of them downloaded: the summary says 2/3
C6_Witness ==
  /\ MultiUrlRun
  /\ summary = <<2, 3>>
  /\ Len(FetchCalls) = 3

MissingArguments ==
  \/ Len(argv) < 2
  \/ script = "downloader" /\ InSeq(OptPlaylist, argv) /\ Len(argv) < 3
  \/ script = "downloader" /\ InSeq(OptRange, argv) /\ Len(argv) < 5
  \/ \A k \in 2..Len(argv) : StartsWith(argv[k], <<"-", "-">>)

\* C8: in each of the three scripts an invocation that lacks a required
\* argument invokes neither describe nor fetch.
C8_InvalidInvocationDownloadsNothing ==
  MissingArguments => calls = <<>>

(* ------------------------------- C9 ----------------------------------- *)
\* the run goes through download_playlist
PlaylistRun ==
  /\ script = "downloader"
  /\ pc # "main"
  /\ DownloaderDispatch(argv).pc = "dp_mkdir"

\* the statement of C9 with `contains entries' read as at least one entry:
\* fetch only after a successful describe that found entries and a 'y' or
\* 'Y'; no fetch and False after any other answer, a describe result
\* without entries or a failed describe; True only after a fetch without
\* error.
C9_AsClaimed ==
  PlaylistRun =>
    /\ FetchCalls # <<>> =>
         /\ calls[1].op = "describe" /\ calls[1].ok
         /\ video_count >= 1
         /\ prompts # <<>> /\ prompts[Len(prompts)].answer \in Yes
    /\ (pc = "exit" /\ video_count < 1) => (FetchCalls = <<>> /\ ret = "False")
    /\ ret = "True" => (FetchCalls # <<>> /\ FetchCalls[Len(FetchCalls)].ok)

\* C9 (amended): in download_playlist fetch is invoked, and at most once,
\* only after describe succeeded, its result had an 'entries' key (the list
\* under it may be empty) and the user answered 'y' or 'Y' to the count;
\* after any other answer, a result without the key or a failed describe
\* fetch is never invoked and the function returns False; it returns True
\* only when the fetch completed without error.
C9_FetchOnlyAfterConfirmation ==
  PlaylistRun =>
    /\ Len(FetchCalls) <= 1
    /\ FetchCalls # <<>> =>
         /\ Len(calls) = 2
         /\ calls[1].op = "describe" /\ calls[1].ok
         /\ video_count # NoneVal
         /\ Len(prompts) = 1
         /\ prompts[1].question = "playlist"
         /\ prompts[1].answer \in Yes
    /\ (pc = "exit" /\ calls # <<>> /\ ~calls[1].ok) =>
         (FetchCalls = <<>> /\ ret = "False")
    /\ (pc = "exit" /\ calls # <<>> /\ calls[1].ok /\ video_count = NoneVal) =>
         (FetchCalls = <<>> /\ ret = "False" /\ prompts = <<>>)
    /\ (pc = "exit" /\ prompts # <<>> /\ prompts[1].answer \notin Yes) =>
         (FetchCalls = <<>> /\ ret = "False")
    /\ ret = "True" => (FetchCalls # <<>> /\ FetchCalls[1].ok)
    /\ (pc = "exit" /\ FetchCalls # <<>> /\ ~FetchCalls[1].ok) => ret = "False"

\* the playlist was described, the user typed Y, the fetch went through
C9_Witness ==
  /\ PlaylistRun
  /\ ret = "True"
  /\ video_count = 1
  /\ prompts = <<Asked("playlist", <<"Y">>)>>
  /\ Len(calls) = 2

(* ------------------------------- C10 ---------------------------------- *)
\* C10: in debugger.py, check_available_formats invokes describe and
\* nothing else; a run with --check-formats invokes fetch only after the
\* continue-to-download prompt was shown and answered 'y' or 'Y'; a run of
\* exactly two words, one of them --check-formats, shows no prompt, invokes
\* no fetch and creates no output directory; and when the prompt is
\* declined, no strategy is attempted and no output directory is created.
C10_InspectionNeverDownloads ==
  script = "debugger" =>
    /\ pc = "caf_done" =>
         /\ Len(calls) = 1
         /\ calls[1].op = "describe"
    /\ (InSeq(OptCheckFormats, argv) /\ FetchCalls # <<>>) =>
         /\ Len(prompts) = 1
         /\ prompts[1].question = "continue"
         /\ prompts[1].answer \in Yes
         /\ calls[1].op = "describe"
    /\ (InSeq(OptCheckFormats, argv) /\ Len(argv) = 3) =>
         /\ prompts = <<>>
         /\ FetchCalls = <<>>
         /\ ~output_dir
         /\ pc = "exit" => (Len(calls) = 1 /\ calls[1].op = "describe")
    /\ (prompts # <<>> /\ prompts[1].answer \notin Yes) =>
         /\ FetchCalls = <<>>
         /\ ~output_dir
         /\ pc = "exit"
         /\ ret = "None"

\* the formats were shown, the user answered n, the run ended there
C10_Witness ==
  /\ script = "debugger"
  /\ pc = "exit"
  /\ prompts = <<Asked("continue", <<"n">>)>>
  /\ Len(calls) = 1
  /\ ~output_dir

(* ------------------------------- C11 ---------------------------------- *)
\* check_available_formats got a non-empty format list and went through
\* the loop of lines 47-51
Partitioned == caf_stage \notin {"none", "describe_failed", "no_formats"}

\* audio_formats.sort has run to its end
AudioSorted == caf_stage \in {"audio_print_raised", "done"}

IsPrefix(s, t) == Len(s) <= Len(t) /\ SubSeq(t, 1, Len(s)) = s

Occurrences(f, s) == Cardinality({k \in 1..Len(s) : s[k] = f})

\* C11: check_available_formats puts every descriptor in at most one of
\* the two lists: in the video list exactly those with a vcodec other than
\* 'none' and a non-empty height, each once; in the audio list exactly the
\* remaining ones with an acodec other than 'none', each once; the others
\* in neither.  The rows displayed are the first of the sorted video list,
\* at most 10, and the first of the sorted audio list, at most 5; a run
\* that reaches its end displays the first 10 and the first 5 when there
\* are that many, and all of them otherwise.
C11_PartitionAndTopN ==
  /\ Partitioned =>
       /\ \A k \in 1..Len(formats) :
            LET f == formats[k]
                video == f.vcodec # "none" /\ f.height > 0
                audio == ~video /\ f.acodec # "none"
            IN  /\ Occurrences(f, video_formats) = (IF video THEN 1 ELSE 0)
                /\ Occurrences(f, audio_formats) = (IF audio THEN 1 ELSE 0)
                /\ Occurrences(f, video_formats) + Occurrences(f, audio_formats) <= 1
       /\ \A k \in 1..Len(video_formats) : Occurrences(video_formats[k], formats) = 1
       /\ \A k \in 1..Len(audio_formats) : Occurrences(audio_formats[k], formats) = 1
  /\ IsPrefix(shown_video, video_formats) /\ Len(shown_video) <= 10
  /\ IsPrefix(shown_audio, audio_formats) /\ Len(shown_audio) <= 5
  /\ ~VideoSorted => shown_video = <<>>
  /\ ~AudioSorted => shown_audio = <<>>
  /\ AudioSorted =>
       \A k \in 1..(Len(audio_formats) - 1) :
          audio_formats[k].abr >= audio_formats[k + 1].abr
  /\ caf_stage = "done" =>
       /\ Len(shown_video) = (IF Len(video_formats) < 10 THEN Len(video_formats) ELSE 10)
       /\ Len(shown_audio) = (IF Len(audio_formats) < 5 THEN Len(audio_formats) ELSE 5)

\* eleven video descriptors, some of them with an audio codec as well, and
\* six audio-only ones: ten and five rows are displayed
C11_Witness ==
  /\ caf_stage = "done"
  /\ Len(formats) = 17
  /\ Len(video_formats) = 11
  /\ Len(shown_video) = 10
  /\ Len(audio_formats) = 6
  /\ Len(shown_audio) = 5
  /\ \E k \in 1..11 : video_formats[k].acodec # "none"
  /\ video_formats # SelectSeq(formats, IsVideoFormat)

(* ------------------------------- C12 ---------------------------------- *)
\* the describe and fetch entries of steps, in order
LibrarySteps == SelectSeq(steps, LAMBDA e : e.ev \in {"describe", "fetch"})

\* the values download_best_quality_video returned, in order
Returned == SelectSeq(steps, LAMBDA e : e.ev = "return")

====
